---- MODULE Spec2Model ----
(***************************************************************************)
(* Model of the remote connection and streaming core of resonance:         *)
(*   - SshConnectionManager (server/src/services/scanQueue.ts 571-691)     *)
(*   - testConnectionHandler (server/src/routes/remoteHosts.ts 159-281)    *)
(*   - streamTrackHandler / streamLocal / streamRemote                     *)
(*     (server/src/routes/stream.ts 37-210)                                *)
(* The server is one Node.js event loop: every action below is one         *)
(* callback (a request handler up to its next await, a timer callback, an  *)
(* ssh2 event handler) together with the promise continuations it runs.    *)
(***************************************************************************)
EXTENDS Integers, Sequences, FiniteSets, TLC

\* ---------------------------------------------------------------- bounds
\* SSH clients the manager may construct in one run (new SSHClient()).
MaxSessions == 3
\* Requests that may be inside getSftp at the same time.
MaxCallers == 2
\* Test-connection requests that may be in progress at the same time.
MaxRequests == 2
\* idleTimeoutMs (60_000 by default), counted in ticks of the model's clock.
IdleTimeoutTicks == 2
\* Tokens of a Range header value.
MaxRangeLen == 4
\* Largest file size in bytes.
MaxFileSize == 2
\* Directories of a library that is walked.
MaxDirs == 4

Hosts == {"h1", "h2"}
Callers == 1..MaxCallers
Requests == 1..MaxRequests
Sessions == 1..MaxSessions
NoSession == 0

\* ---------------------------------------------------------------- state
VARIABLES
  pool,          \* SshConnectionManager.pool: hostId -> session of the entry (0: none)
  connecting,    \* SshConnectionManager.connecting: hostId -> attempt whose promise it holds
  nextSession,   \* next SSHClient to be constructed
  sess,          \* session -> the client, its timers and the promise of its attempt
  idleAge,       \* hostId -> ticks since its entry was created or last returned by getSftp
  cAwait,        \* caller -> attempt whose promise it awaits (0: not suspended)
  returned,      \* what the last step handed to getSftp callers, and to which
  hostKey,       \* host -> key the remote server presents now
  hostFingerprint, \* remote_hosts.host_fingerprint ("": null)
  hostConfig,    \* remote_hosts.host and .private_key_path of the row, as one value
  test,          \* test-connection request -> its progress, inputs and reply
  stream,        \* the GET /:trackId request being handled: progress, inputs, reply
  walk           \* the library walk in progress: its call stack, its results and
                 \* what the directories read so far held

poolVars == <<pool, connecting, nextSession, sess, idleAge>>
callerVars == <<cAwait, returned>>
tofuVars == <<hostKey, hostFingerprint, hostConfig, test>>

\* The value a getSftp promise settles with, and the callers it is handed to:
\* the SFTP channel of a session, or an error.
NoResult == [to |-> {}, kind |-> "none", chan |-> 0, err |-> ""]
Ok(cs, s) == [to |-> cs, kind |-> "ok", chan |-> s, err |-> ""]
Err(cs, e) == [to |-> cs, kind |-> "err", chan |-> 0, err |-> e]

\* A session record:
\*   host    config.id the client was created for
\*   state   free | connecting | sftpPending | open | ending | closed | failed
\*           | gone
\*   listen  the pool's close and error handlers are registered (lines 628-634)
\*   key     host key the server presented in the handshake
\*   ctimer  the connect timeout is armed (line 611)
\*   itimer  ticks left on entry.idleTimer, -1 when not armed
\*   promise state of the promise createConnection returned
\*   preEvict removeConnection(host) or closeAll() was called while the attempt
\*           was in flight
\*   config  host and privateKeyPath of the config the client connects with
FreeSession ==
  [host |-> "none", state |-> "free", listen |-> FALSE, key |-> "",
   ctimer |-> FALSE, itimer |-> -1, promise |-> "none", preEvict |-> FALSE,
   config |-> "none"]
GoneSession == [FreeSession EXCEPT !.state = "gone"]

\* A client whose socket is gone or going, with no handler of the pool
\* registered and no timer armed, can neither act on the manager nor be
\* observed by it again: its record is dropped.
Reap(ss) ==
  [s \in Sessions |->
     IF /\ ss[s].state \in {"ending", "closed", "failed"}
        /\ ~ss[s].listen
        /\ ss[s].itimer = -1
       THEN GoneSession ELSE ss[s]]


\* ------------------------------------------------------------ stream.ts
\* utils/streamableFormats.ts
STREAMABLE_FORMATS ==
  {"FLAC_24", "FLAC", "WAV", "AIFF",
   "MP3_V0", "MP3_320", "MP3_V2", "MP3_256", "MP3_192", "MP3_128",
   "AAC_256", "AAC_128", "OGG", "OPUS"}

\* Mutant: every format that has a content type passes.
isStreamableByContentType(format) ==
  format \in {"FLAC_24", "FLAC", "ALAC", "WAV", "AIFF", "APE", "WV", "MP3_V0", "MP3_320",
              "MP3_V2", "MP3_256", "MP3_192", "MP3_128", "AAC_256", "AAC_128", "OGG",
              "OPUS", "UNKNOWN"}

isStreamableFormat(format) == format \in STREAMABLE_FORMATS

\* stream.ts 14-33
contentTypeMap ==
  [f \in {"FLAC_24", "FLAC"} |-> "audio/flac"] @@
  [f \in {"ALAC"} |-> "audio/x-m4a"] @@
  [f \in {"WAV"} |-> "audio/wav"] @@
  [f \in {"AIFF"} |-> "audio/aiff"] @@
  [f \in {"APE"} |-> "audio/ape"] @@
  [f \in {"WV"} |-> "audio/x-wavpack"] @@
  [f \in {"MP3_V0", "MP3_320", "MP3_V2", "MP3_256", "MP3_192", "MP3_128"} |-> "audio/mpeg"] @@
  [f \in {"AAC_256", "AAC_128"} |-> "audio/aac"] @@
  [f \in {"OGG"} |-> "audio/ogg"] @@
  [f \in {"OPUS"} |-> "audio/opus"] @@
  [f \in {"UNKNOWN"} |-> "application/octet-stream"]

\* The values of the format column.
Formats == DOMAIN contentTypeMap

\* A JavaScript number: an integer or NaN. A comparison with NaN is false.
Num(v) == [nan |-> FALSE, v |-> v]
NaN == [nan |-> TRUE, v |-> 0]
\* Mutant: > in the place of >=.
GeStrict(a, b) == ~a.nan /\ ~b.nan /\ a.v > b.v

Ge(a, b) == ~a.nan /\ ~b.nan /\ a.v >= b.v
Gt(a, b) == ~a.nan /\ ~b.nan /\ a.v > b.v
\* end - start + 1
WindowLength(start, end) ==
  IF start.nan \/ end.nan THEN NaN ELSE Num(end.v - start.v + 1)

\* request.headers.range: absent, or a string, written as its tokens.
RangeTokens == {"bytes=", "0", "1", "-"}
Digits == {"0", "1"}
DigitValue(d) == IF d = "0" THEN 0 ELSE 1
NoRange == [present |-> FALSE, text |-> <<>>]
RangeHeaders ==
  {NoRange} \cup
  {[present |-> TRUE, text |-> t] : t \in UNION {[1..n -> RangeTokens] : n \in 0..MaxRangeLen}}

\* Mutant: the range branch is taken for every request.
TruthyAlways(range) == TRUE

\* if (range): undefined and the empty string are falsy.
Truthy(range) == range.present /\ range.text # <<>>

\* range.replace(/bytes=/, ''): the first occurrence is removed.
ReplaceBytes(t) ==
  IF \E i \in 1..Len(t) : t[i] = "bytes="
    THEN LET i == CHOOSE k \in 1..Len(t) :
                    t[k] = "bytes=" /\ \A j \in 1..(k - 1) : t[j] # "bytes="
         IN SubSeq(t, 1, i - 1) \o SubSeq(t, i + 1, Len(t))
    ELSE t

\* .split('-'): the pieces between the hyphens; one piece for a string without.
RECURSIVE Split(_)
Split(t) ==
  IF \E i \in 1..Len(t) : t[i] = "-"
    THEN LET i == CHOOSE k \in 1..Len(t) :
                    t[k] = "-" /\ \A j \in 1..(k - 1) : t[j] # "-"
         IN <<SubSeq(t, 1, i - 1)>> \o Split(SubSeq(t, i + 1, Len(t)))
    ELSE <<t>>

\* parseInt(s, 10): the value of the longest prefix of decimal digits, NaN when
\* the string does not start with a digit.
RECURSIVE LeadingDigits(_)
LeadingDigits(s) ==
  IF s # <<>> /\ Head(s) \in Digits
    THEN <<Head(s)>> \o LeadingDigits(Tail(s))
    ELSE <<>>
RECURSIVE Decimal(_)
Decimal(ds) ==
  IF ds = <<>> THEN 0
  ELSE 10 * Decimal(SubSeq(ds, 1, Len(ds) - 1)) + DigitValue(ds[Len(ds)])
parseInt(s) ==
  IF LeadingDigits(s) = <<>> THEN NaN ELSE Num(Decimal(LeadingDigits(s)))

\* createReadStream(path, { start, end }): the bytes of the file of size n at
\* offsets from..to, both inclusive, as far as the file reaches. A byte is
\* written as its offset in the file.
ReadStream(n, from, to) ==
  LET last == IF to < n - 1 THEN to ELSE n - 1
      len == IF last >= from THEN last - from + 1 ELSE 0
  IN [i \in 1..len |-> from + i - 1]

\* The response headers the handler sets, the status, and what is sent:
\*   sends   "json": an error object; "stream": a read stream; "nothing":
\*           send() without a payload; "": not sent yet
\*   body    the bytes of the read stream
Unset == [set |-> FALSE, nan |-> FALSE, v |-> 0]
SetTo(n) == [set |-> TRUE, nan |-> n.nan, v |-> n.v]
NoContentRange == [kind |-> "none", start |-> Num(0), end |-> Num(0), size |-> 0]
\* `bytes */${fileSize}`
Unsatisfied(n) == [kind |-> "unsatisfied", start |-> Num(0), end |-> Num(0), size |-> n]
\* `bytes ${start}-${end}/${fileSize}`
Satisfied(start, end, n) == [kind |-> "range", start |-> start, end |-> end, size |-> n]
NoStreamReply ==
  [status |-> 200, error |-> "", format |-> "", contentType |-> "",
   contentRange |-> NoContentRange, acceptRanges |-> FALSE, contentLength |-> Unset,
   sends |-> "", body |-> <<>>]

\* reply.status(code).send({ error })
SendError(rp, code, msg) == [rp EXCEPT !.status = code, !.error = msg, !.sends = "json"]

\* The catch of streamTrackHandler (lines 76-92), on a reply with the headers
\* set so far.
Caught(rp, code) ==
  CASE code = "ENOENT" -> SendError(rp, 404, "File not found")
    [] code = "EACCES" -> SendError(rp, 403, "Access denied")
    [] OTHER -> SendError(rp, 500, "Failed to stream track")

\* Lines 186-209 of streamRemote, and the same statements at lines 115-138 of
\* streamLocal: the response for a file of size n. A read stream opened with a
\* NaN bound has no window the source defines: onNaN = "throws": the call
\* throws; onNaN = "reads": the bound is ignored.
RangeResponse(contentType, range, n, onNaN) ==
  LET rp == [NoStreamReply EXCEPT !.contentType = contentType] IN
  IF Truthy(range)
    THEN
      LET parts == Split(ReplaceBytes(range.text))
          start == parseInt(parts[1])
          end == IF Len(parts) >= 2 /\ parts[2] # <<>> THEN parseInt(parts[2])
                                                       ELSE Num(n - 1)
      IN IF Ge(start, Num(n)) \/ Ge(end, Num(n)) \/ Gt(start, end)
           THEN [rp EXCEPT !.contentRange = Unsatisfied(n), !.status = 416,
                           !.sends = "nothing"]
           ELSE
             LET hd == [rp EXCEPT !.contentRange = Satisfied(start, end, n),
                                  !.acceptRanges = TRUE,
                                  !.contentLength = SetTo(WindowLength(start, end)),
                                  !.status = 206]
             IN IF start.nan \/ end.nan
                  THEN IF onNaN = "throws"
                         THEN Caught(hd, "ERR_OUT_OF_RANGE")
                         ELSE [hd EXCEPT !.sends = "stream",
                                 !.body = ReadStream(n, IF start.nan THEN 0 ELSE start.v,
                                                        IF end.nan THEN n - 1 ELSE end.v)]
                  ELSE [hd EXCEPT !.sends = "stream",
                                  !.body = ReadStream(n, start.v, end.v)]
    ELSE [rp EXCEPT !.acceptRanges = TRUE, !.contentLength = SetTo(Num(n)),
                    !.sends = "stream", !.body = ReadStream(n, 0, n - 1)]

\* A range request whose parsed window holds NaN and passes the 416 test.
OpensNaNWindow(range, n) ==
  LET rp == RangeResponse("", range, n, "reads") IN
    rp.contentRange.kind = "range" /\ (rp.contentRange.start.nan \/ rp.contentRange.end.nan)

\* Paths are strings, written as sequences of their characters.
\* .split('/') of a path: the pieces between the slashes.
RECURSIVE SplitPath(_)
SplitPath(t) ==
  IF \E i \in 1..Len(t) : t[i] = "/"
    THEN LET i == CHOOSE k \in 1..Len(t) :
                    t[k] = "/" /\ \A j \in 1..(k - 1) : t[j] # "/"
         IN <<SubSeq(t, 1, i - 1)>> \o SplitPath(SubSeq(t, i + 1, Len(t)))
    ELSE <<t>>

\* The segments of an absolute path with "", "." and ".." resolved: ".."
\* removes the segment before it and is dropped at the root.
RECURSIVE ResolveSegments(_, _)
ResolveSegments(segs, out) ==
  IF segs = <<>> THEN out
  ELSE LET s == Head(segs) IN
         ResolveSegments(Tail(segs),
           IF s = <<>> \/ s = <<".">> THEN out
           ELSE IF s = <<".", ".">>
             THEN (IF out = <<>> THEN out ELSE SubSeq(out, 1, Len(out) - 1))
           ELSE Append(out, s))

RECURSIVE PathText(_)
PathText(segs) ==
  IF segs = <<>> THEN <<>> ELSE <<"/">> \o Head(segs) \o PathText(Tail(segs))

\* path.normalize(p) of node:path on a POSIX platform, for an absolute path
\* without a trailing slash.
normalize(p) ==
  LET segs == ResolveSegments(SplitPath(p), <<>>) IN
    IF segs = <<>> THEN <<"/">> ELSE PathText(segs)

\* path.resolve(p) for an absolute path.
resolve(p) == normalize(p)

\* path.join(a, b) and path.posix.join(a, b) for an absolute a: the pieces are
\* joined with a slash and the result is normalized.
join(a, b) == normalize(a \o <<"/">> \o b)

\* String.prototype.startsWith
startsWith(s, prefix) ==
  Len(s) >= Len(prefix) /\ SubSeq(s, 1, Len(prefix)) = prefix

\* album.localDirPath and album.remoteDirPath of the albums streamed: "/a".
AlbumDir == <<"/", "a">>

\* Values of track.filePath: "t", "/t", "../t", "../ab".
FilePaths ==
  { <<"t">>, <<"/", "t">>, <<".", ".", "/", "t">>, <<".", ".", "/", "a", "b">> }

\* The names of the audio files a scan finds in the album's directory, and
\* the values of track.filePath it stores for them (scanQueue.ts 507:
\* filePath: file.absolutePath, the directory joined with the name).
ScannedNames == { <<"t", ".", "flac">>, <<"a", ".", "b", ".", "MP3">>, <<"T", ".", "FLAC">> }
ScannedPaths == { join(AlbumDir, name) : name \in ScannedNames }

\* No path has been handed to the file system or to the SFTP channel.
NoPath == <<>>

\* A stream request:
\*   pc           idle | album | local | remote | awaitSftp | stat | replied
\*   range        request.headers.range
\*   format       track.format, from the select of line 43 to the lookup of line 66
\*   isRemote     track.isRemote
\*   contentType  the content type chosen at line 66
\*   caller       its caller id inside getSftp
\*   chan         the session whose SFTP channel getSftp returned
\*   size         stats.size; -1 before the stat
\*   io           the effects outside the database it has started
\*   reply        the response
IdleStream ==
  [pc |-> "idle", range |-> NoRange, format |-> "", isRemote |-> FALSE,
   contentType |-> "", caller |-> 0, chan |-> 0, size |-> -1, io |-> {},
   path |-> NoPath, reply |-> NoStreamReply]

\* The reply is sent: the request is over.
Replied(st, rp) == [st EXCEPT !.pc = "replied", !.caller = 0, !.reply = rp]

\* streamRemote after `await getSftp` (lines 168-183): with the channel it
\* calls sftp.stat; a rejection is caught at line 76.
AfterGetSftp(st, res) ==
  IF st.pc = "awaitSftp" /\ st.caller \in res.to
    THEN IF res.kind = "ok"
           THEN [st EXCEPT !.pc = "stat", !.caller = 0, !.chan = res.chan,
                           !.io = @ \cup {"stat"}]
           ELSE Replied(st, Caught(st.reply, res.err))
    ELSE st

\* walk(rootPath): the directory a walk starts with.
RootDir == 1

\* runScan after `await sshConnectionManager.getSftp(host)` (scanQueue.ts
\* 298-312): with the channel it calls walkRemoteLibrary, whose walk(rootPath)
\* asks for the entries of the root; a rejection is caught at the end of
\* runScan and the job fails.
ScanAfterGetSftp(w, res) ==
  IF w.pc = "awaitSftp" /\ w.caller \in res.to
    THEN IF res.kind = "ok"
           THEN [w EXCEPT !.pc = "readdir", !.remote = TRUE, !.cur = RootDir,
                          !.caller = 0, !.chan = res.chan]
           ELSE [w EXCEPT !.pc = "failed", !.caller = 0]
    ELSE w

\* ------------------------------------------------- SshConnectionManager
\* Connection attempts of host h that have not settled physically: the client
\* is in its handshake, or is ready and waits for the SFTP subsystem.
InFlight(h) ==
  {s \in Sessions : sess[s].host = h /\ sess[s].state \in {"connecting", "sftpPending"}}

\* Established SSH sessions of host h that nobody has ended and that have not
\* reported close or error.
LiveSessions(h) == {s \in Sessions : sess[s].host = h /\ sess[s].state = "open"}

\* get poolSize()
poolSize == Cardinality({h \in Hosts : pool[h] # NoSession})

\* client.end(): a graceful disconnect; the close event follows later.
EndClient(r) ==
  IF r.state \in {"connecting", "sftpPending", "open"}
    THEN [r EXCEPT !.state = "ending"]
    ELSE r

\* Mutant: the timeout rejects and leaves the client connecting.
DestroyClientNot(r) == r

\* client.destroy(): the socket is torn down at once.
DestroyClient(r) == [r EXCEPT !.state = "closed"]

\* Mutant: the whole pool is cleared where one id is to be deleted.
PoolDeleteAll(p, h) == [x \in Hosts |-> NoSession]

\* this.pool.delete(id)
PoolDelete(p, h) == [p EXCEPT ![h] = NoSession]

\* Mutant: the old timer is cleared and no new one is armed.
ResetIdleTimerNotArmed(r) == [r EXCEPT !.itimer = -1]

\* resetIdleTimer(id, entry): clear the entry's timer and arm a new one.
ResetIdleTimer(r) == [r EXCEPT !.itimer = IdleTimeoutTicks]

\* Mutant: the idle timer of an entry taken out of the pool stays armed.
ClearIdleTimerKept(r) == r

\* clearTimeout(entry.idleTimer) of removeConnection and closeAll
ClearIdleTimer(r) == [r EXCEPT !.itimer = -1]

\* Mutant: getSftp does not look at the attempts in flight.
ExistingAttemptIgnored(h) == NoSession

\* getSftp, lines 593-594: an attempt in flight for the id is shared.
ExistingAttempt(h) == connecting[h]

\* Mutant: getSftp has no finally.
FinallyKeep(cn, h) == cn

\* getSftp's finally (line 603), run when the awaited promise settles.
FinallyDelete(cn, h) == [cn EXCEPT ![h] = NoSession]

\* createConnection's ready handler stores the entry (line 625).
PoolSet(p, h, s) == [p EXCEPT ![h] = s]

\* Mutant: the handlers leave the entry in the pool.
OnTransportDownKeepsEntry(p, h) == p

\* The pool's close and error handlers (lines 628-634).
OnTransportDown(p, h) == PoolDelete(p, h)

\* resolve / reject of createConnection's promise: the first call settles it.
Settle(r, outcome) ==
  IF r.promise = "pending" THEN [r EXCEPT !.promise = outcome] ELSE r

\* The callers suspended on the promise of attempt s: the creator, in its
\* await of line 600, and those that got the promise from line 594.
Awaiters(s) == {c \in Callers : cAwait[c] = s}

\* The continuations of the awaiting callers run as microtasks of the callback
\* that settled the promise, before any other event is handled.
ResumeAwaiters(aw, s) == [c \in Callers |-> IF aw[c] = s THEN NoSession ELSE aw[c]]

\* Callers are anonymous requests: a new call is made by the first one that is
\* not suspended inside getSftp (0: all are suspended).
NextCaller ==
  IF \A c \in Callers : cAwait[c] # NoSession THEN 0
  ELSE CHOOSE c \in Callers :
         cAwait[c] = NoSession /\ \A d \in Callers : cAwait[d] = NoSession => c <= d

\* getSftp(config) called by caller c with the row of the host as config (line
\* 298; stream.ts 168-174); keyOk = FALSE: config.privateKeyPath is set and the
\* file cannot be read.
GetSftpCall(c, h, keyOk) ==
  /\ c = NextCaller
  /\ IF pool[h] # NoSession
       THEN \* lines 587-591: live entry: reset the idle timer, return its channel
         /\ sess' = [sess EXCEPT ![pool[h]] = ResetIdleTimer(@)]
         /\ idleAge' = [idleAge EXCEPT ![h] = 0]
         /\ returned' = Ok({c}, pool[h])
         /\ UNCHANGED <<pool, connecting, nextSession, cAwait>>
       ELSE IF ExistingAttempt(h) # NoSession
         THEN \* lines 593-594: return the promise of the attempt in flight
           /\ cAwait' = [cAwait EXCEPT ![c] = ExistingAttempt(h)]
           /\ returned' = NoResult
           /\ UNCHANGED poolVars
         ELSE \* lines 596-597: createConnection
           IF keyOk
             THEN \* lines 609-614, 656-663: new client, arm the timeout, connect
               /\ nextSession <= MaxSessions
               /\ sess' = [sess EXCEPT ![nextSession] =
                    [FreeSession EXCEPT !.host = h, !.state = "connecting",
                                        !.ctimer = TRUE, !.promise = "pending",
                                        !.config = hostConfig[h]]]
               /\ nextSession' = nextSession + 1
               /\ connecting' = [connecting EXCEPT ![h] = nextSession]
               /\ cAwait' = [cAwait EXCEPT ![c] = nextSession]
               /\ returned' = NoResult
               /\ UNCHANGED <<pool, idleAge>>
             ELSE \* lines 649-653: readFileSync throws: the timeout is cleared, the
                  \* promise rejected and the client never connects; the caller's
                  \* await throws and its finally removes the in-flight record
               /\ connecting' = FinallyDelete(connecting, h)
               /\ returned' = Err({c}, "key")
               /\ UNCHANGED <<pool, nextSession, sess, idleAge, cAwait>>

\* getSftp called by a scan (line 298).
GetSftp(c, h, keyOk) ==
  /\ GetSftpCall(c, h, keyOk)
  /\ UNCHANGED tofuVars
  /\ UNCHANGED walk
  /\ UNCHANGED stream

\* client 'ready' (lines 616-618): clear the connect timeout, request SFTP.
\* createConnection passes no hostVerifier: the key presented is accepted.
Ready(s) ==
  /\ sess[s].state = "connecting"
  /\ sess' = [sess EXCEPT ![s] = [@ EXCEPT !.state = "sftpPending", !.ctimer = FALSE,
                                           !.key = hostKey[sess[s].host]]]
  /\ UNCHANGED <<pool, connecting, nextSession, idleAge, cAwait>>
  /\ returned' = NoResult
  /\ UNCHANGED tofuVars
  /\ UNCHANGED walk
  /\ UNCHANGED stream

\* client.sftp callback without error (lines 624-636): store the entry, arm its
\* idle timer, register the close and error handlers, resolve; the creator's
\* finally then removes the in-flight record.
SftpOk(s) ==
  /\ sess[s].state = "sftpPending"
  /\ sess' = [sess EXCEPT ![s] =
       Settle(ResetIdleTimer([@ EXCEPT !.state = "open", !.listen = TRUE]), "ok")]
  /\ pool' = PoolSet(pool, sess[s].host, s)
  /\ idleAge' = [idleAge EXCEPT ![sess[s].host] = 0]
  /\ connecting' = FinallyDelete(connecting, sess[s].host)
  /\ cAwait' = ResumeAwaiters(cAwait, s)
  /\ returned' = IF sess[s].promise = "pending" THEN Ok(Awaiters(s), s) ELSE NoResult
  /\ UNCHANGED nextSession
  /\ UNCHANGED tofuVars
  /\ walk' = ScanAfterGetSftp(walk, returned')
  /\ stream' = AfterGetSftp(stream, returned')

\* client.sftp callback with an error (lines 619-622): end the client, reject.
SftpErr(s) ==
  /\ sess[s].state = "sftpPending"
  /\ sess' = Reap([sess EXCEPT ![s] = Settle(EndClient(@), "sftp")])
  /\ connecting' = FinallyDelete(connecting, sess[s].host)
  /\ cAwait' = ResumeAwaiters(cAwait, s)
  /\ returned' = IF sess[s].promise = "pending" THEN Err(Awaiters(s), "sftp") ELSE NoResult
  /\ UNCHANGED <<pool, nextSession, idleAge>>
  /\ UNCHANGED tofuVars
  /\ walk' = ScanAfterGetSftp(walk, returned')
  /\ stream' = AfterGetSftp(stream, returned')

\* The connect timeout fires (lines 611-614): destroy the client, reject.
ConnectTimeout(s) ==
  /\ sess[s].ctimer
  /\ sess' = Reap([sess EXCEPT ![s] =
                     Settle(DestroyClient([@ EXCEPT !.ctimer = FALSE]), "timeout")])
  /\ connecting' = FinallyDelete(connecting, sess[s].host)
  /\ cAwait' = ResumeAwaiters(cAwait, s)
  /\ returned' = IF sess[s].promise = "pending" THEN Err(Awaiters(s), "timeout") ELSE NoResult
  /\ UNCHANGED <<pool, nextSession, idleAge>>
  /\ UNCHANGED tofuVars
  /\ walk' = ScanAfterGetSftp(walk, returned')
  /\ stream' = AfterGetSftp(stream, returned')

\* client 'error' before the entry exists (lines 640-643): the handshake or the
\* transport failed; clear the timeout and reject. ssh2 drops the socket.
ConnectError(s) ==
  /\ sess[s].state \in {"connecting", "sftpPending"}
  /\ sess' = Reap([sess EXCEPT ![s] =
                     Settle([@ EXCEPT !.state = "failed", !.ctimer = FALSE], "transport")])
  /\ connecting' = FinallyDelete(connecting, sess[s].host)
  /\ cAwait' = ResumeAwaiters(cAwait, s)
  /\ returned' = IF sess[s].promise = "pending" THEN Err(Awaiters(s), "transport")
                                                ELSE NoResult
  /\ UNCHANGED <<pool, nextSession, idleAge>>
  /\ UNCHANGED tofuVars
  /\ walk' = ScanAfterGetSftp(walk, returned')
  /\ stream' = AfterGetSftp(stream, returned')

\* client 'error' of a session that got a pool entry (lines 632-634, and the
\* handler of line 640, which finds the promise settled): the entry of the
\* session's host id is deleted. ssh2 emits 'close' right after the 'error' of
\* a broken socket, so the close handler (lines 628-630) runs with it. Neither
\* handler clears the idle timer of the entry.
TransportError(s) ==
  /\ sess[s].state = "open"
  /\ sess[s].listen
  /\ sess' = Reap([sess EXCEPT ![s] = [@ EXCEPT !.state = "closed", !.listen = FALSE]])
  /\ pool' = OnTransportDown(OnTransportDown(pool, sess[s].host), sess[s].host)
  /\ UNCHANGED <<connecting, nextSession, idleAge>>
  /\ returned' = NoResult
  /\ UNCHANGED cAwait
  /\ UNCHANGED tofuVars
  /\ UNCHANGED walk
  /\ UNCHANGED stream

\* client 'close' (lines 628-630): emitted when the socket has closed, after
\* an end() of the manager or because the remote side closed the connection.
TransportClose(s) ==
  /\ sess[s].state \in {"open", "ending"}
  /\ sess' = Reap([sess EXCEPT ![s] = [@ EXCEPT !.state = "closed", !.listen = FALSE]])
  /\ pool' = IF sess[s].listen THEN OnTransportDown(pool, sess[s].host) ELSE pool
  /\ UNCHANGED <<connecting, nextSession, idleAge>>
  /\ returned' = NoResult
  /\ UNCHANGED cAwait
  /\ UNCHANGED tofuVars
  /\ UNCHANGED walk
  /\ UNCHANGED stream

\* The idle timer of an entry fires (lines 669-672): end the entry's client and
\* delete the pool entry of the id.
IdleExpire(s) ==
  /\ sess[s].itimer = 0
  /\ sess' = Reap([sess EXCEPT ![s] = EndClient(ClearIdleTimer(@))])
  /\ pool' = PoolDelete(pool, sess[s].host)
  /\ UNCHANGED <<connecting, nextSession, idleAge>>
  /\ returned' = NoResult
  /\ UNCHANGED cAwait
  /\ UNCHANGED tofuVars
  /\ UNCHANGED walk
  /\ UNCHANGED stream

\* removeConnection(id), lines 675-682: the entry of the id, if there is one,
\* is ended and deleted. An attempt in flight for the id is not looked at; the
\* call is recorded on it.
RemoveConnection(h) ==
  /\ pool[h] # NoSession \/ \E s \in InFlight(h) : ~sess[s].preEvict
  /\ sess' = [s \in Sessions |->
                IF s = pool[h] THEN EndClient(ClearIdleTimer(sess[s]))
                ELSE IF s \in InFlight(h) THEN [sess[s] EXCEPT !.preEvict = TRUE]
                ELSE sess[s]]
  /\ pool' = PoolDelete(pool, h)
  /\ UNCHANGED <<connecting, nextSession, idleAge>>
  /\ returned' = NoResult
  /\ UNCHANGED cAwait
  /\ UNCHANGED tofuVars
  /\ UNCHANGED walk
  /\ UNCHANGED stream

\* closeAll(), lines 684-690.
CloseAll ==
  /\ \E h \in Hosts : pool[h] # NoSession
  /\ LET held == {pool[h] : h \in {x \in Hosts : pool[x] # NoSession}} IN
       sess' = [s \in Sessions |->
                  IF s \in held THEN EndClient(ClearIdleTimer(sess[s])) ELSE sess[s]]
  /\ pool' = [h \in Hosts |-> NoSession]
  /\ UNCHANGED <<connecting, nextSession, idleAge>>
  /\ returned' = NoResult
  /\ UNCHANGED cAwait
  /\ UNCHANGED tofuVars
  /\ UNCHANGED walk
  /\ UNCHANGED stream

\* closeAll() called while attempts are in flight: the same statements, which
\* do not look at this.connecting; the call is recorded on those attempts.
CloseAllInFlight ==
  /\ \E s \in Sessions : sess[s].state \in {"connecting", "sftpPending"} /\ ~sess[s].preEvict
  /\ LET held == {pool[h] : h \in {x \in Hosts : pool[x] # NoSession}} IN
       sess' = [s \in Sessions |->
                  IF s \in held THEN EndClient(ClearIdleTimer(sess[s]))
                  ELSE IF sess[s].state \in {"connecting", "sftpPending"}
                    THEN [sess[s] EXCEPT !.preEvict = TRUE]
                  ELSE sess[s]]
  /\ pool' = [h \in Hosts |-> NoSession]
  /\ UNCHANGED <<connecting, nextSession, idleAge>>
  /\ returned' = NoResult
  /\ UNCHANGED cAwait
  /\ UNCHANGED tofuVars
  /\ UNCHANGED walk
  /\ UNCHANGED stream

\* One tick of time passes. A timer that is due fires before time moves on.
Tick ==
  /\ \/ \E s \in Sessions : sess[s].itimer > 0
     \/ \E h \in Hosts : pool[h] # NoSession /\ idleAge[h] <= IdleTimeoutTicks
  /\ \A s \in Sessions : sess[s].itimer # 0
  /\ sess' = [s \in Sessions |->
                IF sess[s].itimer > 0 THEN [sess[s] EXCEPT !.itimer = @ - 1] ELSE sess[s]]
  /\ idleAge' = [h \in Hosts |->
                   IF pool[h] = NoSession THEN 0
                   ELSE IF idleAge[h] <= IdleTimeoutTicks THEN idleAge[h] + 1
                   ELSE idleAge[h]]
  /\ UNCHANGED <<pool, connecting, nextSession>>
  /\ returned' = NoResult
  /\ UNCHANGED cAwait
  /\ UNCHANGED tofuVars
  /\ UNCHANGED walk
  /\ UNCHANGED stream

PoolInit ==
  /\ pool = [h \in Hosts |-> NoSession]
  /\ connecting = [h \in Hosts |-> NoSession]
  /\ nextSession = 1
  /\ sess = [s \in Sessions |-> FreeSession]
  /\ idleAge = [h \in Hosts |-> 0]
  /\ cAwait = [c \in Callers |-> NoSession]
  /\ returned = NoResult
  /\ stream = IdleStream

\* ------------------------------------------------ testConnectionHandler
\* hostVerifier (remoteHosts.ts 225-229): 'SHA256:' + base64(sha256(key)).
\* Distinct keys have distinct digests.
Fingerprint(key) ==
  CASE key = "keyA" -> "SHA256:a"
    [] key = "keyB" -> "SHA256:b"
    [] OTHER -> "unknown"

NoReply == [success |-> FALSE, message |-> "", fingerprint |-> "", needsAcceptance |-> FALSE]
Reply(ok, msg, fp, needs) ==
  [success |-> ok, message |-> msg, fingerprint |-> fp, needsAcceptance |-> needs]

\* A test-connection request:
\*   pc      idle | connecting | persisting | done
\*   host    request.params.id
\*   accept  body.data.acceptFingerprint
\*   row     host.hostFingerprint as selected at lines 172-176
\*   fp      fingerprint captured by hostVerifier in this request's handshake
\*   reply   the body sent
\* accept and row are kept for the requests that reach the TOFU logic; a request
\* that fails before it keeps the reply only.
IdleTest ==
  [pc |-> "idle", host |-> "none", accept |-> FALSE, row |-> "", fp |-> "", reply |-> NoReply]

\* Mutant: acceptFingerprint is looked at before the stored fingerprint.
TofuDecisionAcceptFirst(stored, fp, accept) ==
  IF accept THEN "store"
  ELSE IF stored = "" THEN "prompt"
  ELSE IF stored # fp THEN "changed" ELSE "verified"

\* Mutant: an unseen fingerprint is stored without asking.
TofuDecisionAutoAccept(stored, fp, accept) ==
  IF stored # ""
    THEN IF stored # fp THEN "changed" ELSE "verified"
    ELSE "store"

\* The TOFU decision of lines 235-273 on the selected row and the fingerprint
\* of the handshake.
TofuDecision(stored, fp, accept) ==
  IF stored # ""
    THEN IF stored # fp THEN "changed" ELSE "verified"
    ELSE IF accept THEN "store" ELSE "prompt"

\* POST /:id/test up to the start of the SSH connection (lines 163-231).
TestStart(r, h, accept, keyOk) ==
  /\ test[r].pc \in {"idle", "done"}
  /\ test' = [test EXCEPT ![r] =
       IF keyOk
         THEN [IdleTest EXCEPT !.pc = "connecting", !.host = h, !.accept = accept,
                               !.row = hostFingerprint[h]]
         ELSE \* lines 188-193
              [IdleTest EXCEPT !.pc = "done", !.host = h,
                               !.reply = Reply(FALSE, "Cannot read private key", "", FALSE)]]
  /\ UNCHANGED <<hostKey, hostFingerprint, hostConfig>>
  /\ UNCHANGED poolVars
  /\ UNCHANGED callerVars
  /\ UNCHANGED stream
  /\ UNCHANGED walk

\* conn 'ready' (lines 205-209) and the TOFU logic that follows the await.
TestReady(r) ==
  /\ test[r].pc = "connecting"
  /\ LET fp == Fingerprint(hostKey[test[r].host])
         d == TofuDecision(test[r].row, fp, test[r].accept) IN
       test' = [test EXCEPT ![r] =
         CASE d = "changed" ->
                [@ EXCEPT !.pc = "done", !.fp = fp,
                   !.reply = Reply(FALSE, "Host fingerprint has changed!", fp, FALSE)]
           [] d = "verified" ->
                [@ EXCEPT !.pc = "done", !.fp = fp,
                   !.reply = Reply(TRUE, "fingerprint verified", fp, FALSE)]
           [] d = "store" -> [@ EXCEPT !.pc = "persisting", !.fp = fp]
           [] OTHER ->
                [@ EXCEPT !.pc = "done", !.fp = fp,
                   !.reply = Reply(FALSE, "New host fingerprint detected", fp, TRUE)]]
  /\ UNCHANGED <<hostKey, hostFingerprint, hostConfig>>
  /\ UNCHANGED poolVars
  /\ UNCHANGED callerVars
  /\ UNCHANGED stream
  /\ UNCHANGED walk

\* The update of lines 255-258 is executed, then the reply of lines 260-264.
TestPersist(r) ==
  /\ test[r].pc = "persisting"
  /\ hostFingerprint' = [hostFingerprint EXCEPT ![test[r].host] = test[r].fp]
  /\ test' = [test EXCEPT ![r] =
       [@ EXCEPT !.pc = "done",
          !.reply = Reply(TRUE, "fingerprint accepted and stored", test[r].fp, FALSE)]]
  /\ UNCHANGED <<hostKey, hostConfig>>
  /\ UNCHANGED poolVars
  /\ UNCHANGED callerVars
  /\ UNCHANGED stream
  /\ UNCHANGED walk

\* conn 'error' or the 10 s timeout (lines 200-203, 211-214), caught at 274.
TestFail(r, msg) ==
  /\ test[r].pc = "connecting"
  /\ test' = [test EXCEPT ![r] = [@ EXCEPT !.pc = "done", !.accept = FALSE, !.row = "",
                                           !.reply = Reply(FALSE, msg, "", FALSE)]]
  /\ UNCHANGED <<hostKey, hostFingerprint, hostConfig>>
  /\ UNCHANGED poolVars
  /\ UNCHANGED callerVars
  /\ UNCHANGED stream
  /\ UNCHANGED walk

\* The server at the host's address starts to present another key (the key
\* was rotated, or another machine answers).
KeyChange(h) ==
  /\ hostKey' = [hostKey EXCEPT ![h] = IF @ = "keyA" THEN "keyB" ELSE "keyA"]
  /\ UNCHANGED <<hostFingerprint, hostConfig, test>>
  /\ UNCHANGED poolVars
  /\ UNCHANGED callerVars
  /\ UNCHANGED stream
  /\ UNCHANGED walk

\* PATCH /:id (remoteHosts.ts 115-142): the columns named in the body are set
\* to the values of the body (fp: hostFingerprint; cfg: host and
\* privateKeyPath; a column the body leaves out keeps its value); the pool is
\* not touched.
UpdateRemoteHost(h, fp, cfg) ==
  /\ hostFingerprint' = [hostFingerprint EXCEPT ![h] = fp]
  /\ hostConfig' = [hostConfig EXCEPT ![h] = cfg]
  /\ UNCHANGED <<hostKey, test>>
  /\ UNCHANGED poolVars
  /\ UNCHANGED callerVars
  /\ UNCHANGED stream
  /\ UNCHANGED walk

TofuInit ==
  /\ hostKey = [h \in Hosts |-> "keyA"]
  /\ hostFingerprint = [h \in Hosts |-> ""]
  /\ hostConfig = [h \in Hosts |-> "cfgA"]
  /\ test = [r \in Requests |-> IdleTest]


\* ------------------------------------------------- streamTrackHandler
\* The remote host of the libraries that are streamed.
StreamHost == "h1"

\* GET /:trackId, lines 41-54: the track row is selected; a missing track and
\* a format outside the allow-list are answered here.
StreamTrack(range, trackExists, format, isRemote) ==
  /\ stream.pc = "idle"
  /\ LET st == [IdleStream EXCEPT !.range = range] IN
       stream' =
         IF ~trackExists
           THEN Replied(st, SendError(NoStreamReply, 404, "Track not found"))
         ELSE IF ~isStreamableFormat(format)
           THEN Replied([st EXCEPT !.format = format, !.isRemote = isRemote],
                        [SendError(NoStreamReply, 415, "Format not streamable in browser")
                           EXCEPT !.format = format])
         ELSE [st EXCEPT !.pc = "album", !.format = format, !.isRemote = isRemote]
  /\ returned' = NoResult
  /\ UNCHANGED cAwait
  /\ UNCHANGED poolVars
  /\ UNCHANGED tofuVars
  /\ UNCHANGED walk

\* Lines 56-75: the album row is selected, the content type looked up and the
\* backend chosen.
StreamAlbum(albumExists, remoteDirPath, localDirPath) ==
  /\ stream.pc = "album"
  /\ LET st == [stream EXCEPT !.contentType = contentTypeMap[stream.format], !.format = ""] IN
       stream' =
         IF ~albumExists
           THEN Replied(stream, SendError(NoStreamReply, 404, "Album not found"))
         ELSE IF stream.isRemote /\ remoteDirPath
           THEN [st EXCEPT !.pc = "remote"]
         ELSE IF ~stream.isRemote /\ localDirPath
           THEN [st EXCEPT !.pc = "local"]
         ELSE Replied(st, SendError(NoStreamReply, 400, "File path not available"))
  /\ returned' = NoResult
  /\ UNCHANGED cAwait
  /\ UNCHANGED poolVars
  /\ UNCHANGED tofuVars
  /\ UNCHANGED walk

\* The path streamLocal resolves for track.filePath (lines 102-104), and the
\* check of line 107.
LocalResolved(filePath) == resolve(normalize(join(AlbumDir, filePath)))
LocalInside(filePath) == startsWith(LocalResolved(filePath), resolve(AlbumDir))

\* The same for every value of track.filePath, computed once.
LocalPaths ==
  [f \in FilePaths \cup ScannedPaths |-> [resolved |-> LocalResolved(f), inside |-> LocalInside(f)]]

\* streamLocal, lines 102-138. filePath: track.filePath of the row selected at
\* line 41; file: what fs.access finds; n: stats.size.
StreamLocal(filePath, file, n, onNaN) ==
  /\ stream.pc = "local"
  /\ stream' =
       IF ~LocalPaths[filePath].inside
         THEN Replied(stream, SendError(NoStreamReply, 400, "Invalid file path"))
       ELSE IF file # "ok"
         THEN Replied([stream EXCEPT !.io = @ \cup {"access"},
                         !.path = LocalPaths[filePath].resolved],
                      Caught(NoStreamReply, file))
       ELSE
         LET rp == RangeResponse(stream.contentType, stream.range, n, onNaN) IN
           Replied([stream EXCEPT !.size = n,
                      !.path = LocalPaths[filePath].resolved,
                      !.io = @ \cup {"access", "stat"} \cup
                             (IF rp.sends = "stream" THEN {"read"} ELSE {})],
                   rp)
  /\ returned' = NoResult
  /\ UNCHANGED cAwait
  /\ UNCHANGED poolVars
  /\ UNCHANGED tofuVars
  /\ UNCHANGED walk

\* streamRemote, lines 148-174: the library and its host are selected and
\* getSftp is called with the host's configuration.
StreamRemote(hasRemoteHost, hostExists, keyOk) ==
  /\ stream.pc = "remote"
  /\ IF hasRemoteHost /\ hostExists
       THEN /\ GetSftpCall(NextCaller, StreamHost, keyOk)
            /\ stream' = AfterGetSftp([stream EXCEPT !.pc = "awaitSftp",
                                         !.caller = NextCaller,
                                         !.io = @ \cup {"getSftp"}],
                                      returned')
       ELSE /\ stream' =
                 IF ~hasRemoteHost
                   THEN Replied(stream, SendError(NoStreamReply, 400,
                                          "No remote host configured for this library"))
                   ELSE Replied(stream, SendError(NoStreamReply, 404, "Remote host not found"))
            /\ returned' = NoResult
            /\ UNCHANGED cAwait
            /\ UNCHANGED poolVars
  /\ UNCHANGED tofuVars
  /\ UNCHANGED walk

\* The path streamRemote hands to sftp.stat and createReadStream (line 176).
RemotePath(filePath) == join(AlbumDir, filePath)
RemotePaths == [f \in FilePaths \cup ScannedPaths |-> RemotePath(f)]

\* The callback of sftp.stat (lines 176-209). filePath: track.filePath of the
\* row selected at line 41, with which sftp.stat was called; err: "": none,
\* else the code of the error; n: stats.size.
StreamStat(filePath, err, n, onNaN) ==
  /\ stream.pc = "stat"
  /\ stream' =
       IF err # ""
         THEN Replied([stream EXCEPT !.path = RemotePaths[filePath]],
                      Caught(NoStreamReply, err))
         ELSE
           LET rp == RangeResponse(stream.contentType, stream.range, n, onNaN) IN
             Replied([stream EXCEPT !.size = n,
                        !.path = RemotePaths[filePath],
                        !.io = @ \cup (IF rp.sends = "stream" THEN {"read"} ELSE {})],
                     rp)
  /\ returned' = NoResult
  /\ UNCHANGED cAwait
  /\ UNCHANGED poolVars
  /\ UNCHANGED tofuVars
  /\ UNCHANGED walk

\* The response has been written; the next request arrives.
StreamDone ==
  /\ stream.pc = "replied"
  /\ stream' = IdleStream
  /\ returned' = NoResult
  /\ UNCHANGED cAwait
  /\ UNCHANGED poolVars
  /\ UNCHANGED tofuVars
  /\ UNCHANGED walk

\* ------------------------------------------------------ directoryWalker.ts
\* The directories of the library: RootDir is rootPath, and directory d holds
\* the directories 2d and 2d+1. A directory stands for its full path.
Dirs == 1..MaxDirs
Subdirs(d) == SelectSeq(<<2 * d, 2 * d + 1>>, LAMBDA x : x \in Dirs)

\* File names are sequences of pieces: a "." or a run of other characters.
\* formatDetector.ts 188-201
AUDIO_EXTENSIONS ==
  { <<".", "flac">>, <<".", "mp3">>, <<".", "m4a">>, <<".", "aac">>, <<".", "ogg">>,
    <<".", "opus">>, <<".", "wav">>, <<".", "aiff">>, <<".", "aif">>, <<".", "ape">>,
    <<".", "wv">>, <<".", "alac">> }

\* String.prototype.toLowerCase, piece by piece.
toLowerCase(name) ==
  [i \in 1..Len(name) |->
     CASE name[i] = "FLAC" -> "flac"
       [] name[i] = "MP3" -> "mp3"
       [] name[i] = "T" -> "t"
       [] OTHER -> name[i]]

\* filename.lastIndexOf('.'), counted from 1; 0: there is none.
lastIndexOf(name) ==
  IF \E i \in 1..Len(name) : name[i] = "."
    THEN CHOOSE i \in 1..Len(name) :
           name[i] = "." /\ \A j \in (i + 1)..Len(name) : name[j] # "."
    ELSE 0

\* filename.substring(i): from position i to the end; a position before the
\* start counts as the start.
substring(name, i) == SubSeq(name, IF i < 1 THEN 1 ELSE i, Len(name))

\* Mutant: the extension is compared as it is written.
isAudioFileCaseSensitive(name) == substring(name, lastIndexOf(name)) \in AUDIO_EXTENSIONS

\* isAudioFile(filename), formatDetector.ts 221-224
isAudioFile(name) == toLowerCase(substring(name, lastIndexOf(name))) \in AUDIO_EXTENSIONS

\* Directory entries that are not directories: regular files and others
\* (links, devices), by name.
File(name) == [name |-> name, kind |-> "file"]
Other(name) == [name |-> name, kind |-> "other"]

\* What readdir can return for a directory besides its subdirectories, in the
\* order it returns it.
Listings ==
  { <<>>,
    <<File(<<"cover", ".", "jpg">>)>>,
    <<File(<<"t", ".", "flac">>)>>,
    <<File(<<"cover", ".", "jpg">>), File(<<"t", ".", "flac">>),
      File(<<"a", ".", "b", ".", "MP3">>)>>,
    <<File(<<"flac">>), Other(<<"l", ".", "flac">>)>>,
    <<Other(<<"l", ".", "flac">>), File(<<"T", ".", "FLAC">>)>> }

\* What the walk knows of a directory: not read yet, readdir failed, or the
\* entries readdir returned; statFails: stat of "t.flac" in it fails.
Unread == [st |-> "unread", entries |-> <<>>, statFails |-> FALSE]
Failed == [st |-> "failed", entries |-> <<>>, statFails |-> FALSE]
Listed(entries, statFails) == [st |-> "ok", entries |-> entries, statFails |-> statFails]

\* A DiscoveredFile: absolutePath is the directory and the name.
DiscoveredFile(d, name) == [dir |-> d, filename |-> name]

\* Mutant: the walker takes every entry with an audio name, whatever it is.
AudioFilesAnyKind(d, entries, remote, statFails) ==
  LET named == SelectSeq(entries, LAMBDA e : isAudioFile(e.name)) IN
    [i \in 1..Len(named) |-> DiscoveredFile(d, named[i].name)]

\* The loop over the entries (lines 63-90, local; 164-183, remote): the
\* regular files with an audio name; the local walker leaves out a file whose
\* stat throws.
AudioFiles(d, entries, remote, statFails) ==
  LET kept == SelectSeq(entries, LAMBDA e :
                /\ e.kind = "file"
                /\ isAudioFile(e.name)
                /\ remote \/ ~(statFails /\ e.name = <<"t", ".", "flac">>))
  IN [i \in 1..Len(kept) |-> DiscoveredFile(d, kept[i].name)]

\* job.data of a scan job without a remoteHostId.
Undefined == "undefined"

\* No scan job: the walk was called by itself.
NoJob == [isRemote |-> FALSE, remoteHostId |-> Undefined, libraryPath |-> ""]

\* The walk between two calls: nothing is on the stack. job: the data of the
\* scan job that runs; caller, chan: the scan's caller id inside getSftp and
\* the channel it got (0: none).
IdleWalk ==
  [pc |-> "idle", remote |-> FALSE, cur |-> 0, stack |-> <<>>, albumDirs |-> <<>>,
   read |-> [d \in Dirs |-> Unread], job |-> NoJob, caller |-> 0, chan |-> 0]

\* Mutant: a walk(dir) that returns ends the walk of its parent as well.
ReturnAll(w, stack) == [w EXCEPT !.pc = "done", !.cur = 0, !.stack = <<>>]

\* walk(dir) returns (lines 54, 104; 157, 200): the loop of the caller goes on
\* with its next subdirectory (lines 101-103; 197-199), and a caller whose loop
\* is over returns in turn; the return of walk(rootPath) ends the walk.
\* stack: the subdirectories each caller has still to walk.
RECURSIVE Return(_, _)
Return(w, stack) ==
  IF stack = <<>>
    THEN [w EXCEPT !.pc = "done", !.cur = 0, !.stack = <<>>]
  ELSE LET top == stack[Len(stack)]
           below == SubSeq(stack, 1, Len(stack) - 1)
       IN IF top = <<>>
            THEN Return(w, below)
            ELSE [w EXCEPT !.pc = "readdir", !.cur = Head(top),
                           !.stack = Append(below, Tail(top))]

\* walkLocalLibrary(rootPath) or walkRemoteLibrary(sftp, rootPath) is called:
\* walk(rootPath) asks for the entries of the root.
WalkStart(remote) ==
  /\ walk.pc = "idle"
  /\ walk' = [IdleWalk EXCEPT !.pc = "readdir", !.remote = remote, !.cur = RootDir]
  /\ UNCHANGED <<poolVars, callerVars, tofuVars, stream>>

\* readdir of the directory being walked settles (lines 48-55; 151-158). ok =
\* FALSE: it rejects, and walk returns. Otherwise the entries are sorted into
\* audio files and subdirectories, a directory with audio files is added to
\* albumDirs (lines 93-100; 188-195) and walk is called for the first
\* subdirectory.
WalkReaddir(ok, entries, statFails) ==
  /\ walk.pc = "readdir"
  /\ LET d == walk.cur IN
       walk' =
         IF ~ok
           THEN Return([walk EXCEPT !.read[d] = Failed], walk.stack)
           ELSE
             LET audioFiles == AudioFiles(d, entries, walk.remote, statFails)
                 w == [walk EXCEPT
                         !.read[d] = Listed(entries, statFails),
                         !.albumDirs =
                            IF Len(audioFiles) > 0
                              THEN Append(@, [dirPath |-> d, audioFiles |-> audioFiles])
                              ELSE @]
             IN Return(w, Append(walk.stack, Subdirs(d)))
  /\ UNCHANGED <<poolVars, callerVars, tofuVars, stream>>

\* POST /:id/scan (libraries.ts 155-203): the library row is selected; a
\* missing library is answered 404 and one without a path 400; otherwise a
\* scan job is enqueued with data { jobId, libraryId, userId, libraryPath,
\* isRemote }. localPath, remotePath: "" when the column is null;
\* remoteHostId: Undefined when it is null.
ScanLibrary(libraryExists, localPath, remotePath, remoteHostId) ==
  /\ walk.pc = "idle"
  /\ LET libraryPath == IF localPath # "" THEN localPath ELSE remotePath IN
       walk' =
         IF ~libraryExists \/ libraryPath = ""
           THEN walk
           ELSE [IdleWalk EXCEPT
                   !.pc = "queued",
                   !.job = [isRemote |-> remoteHostId # Undefined,
                            remoteHostId |-> Undefined,
                            libraryPath |-> libraryPath]]
  /\ UNCHANGED <<poolVars, callerVars, tofuVars, stream>>

\* The worker takes the job (scanQueue.ts 62-74) and calls runScan with its
\* data (259-327): with isRemote and a remoteHostId the host row is selected
\* (a missing row throws), getSftp is called and walkRemoteLibrary walks over
\* the channel; otherwise walkLocalLibrary walks libraryPath.
RunScan(hostExists, keyOk) ==
  /\ walk.pc = "queued"
  /\ IF walk.job.isRemote /\ walk.job.remoteHostId # Undefined
       THEN IF hostExists
              THEN /\ GetSftpCall(NextCaller, walk.job.remoteHostId, keyOk)
                   /\ walk' = ScanAfterGetSftp(
                                 [walk EXCEPT !.pc = "awaitSftp", !.caller = NextCaller],
                                 returned')
              ELSE /\ walk' = [walk EXCEPT !.pc = "failed"]
                   /\ UNCHANGED <<poolVars, callerVars>>
       ELSE /\ walk' = [walk EXCEPT !.pc = "readdir", !.remote = FALSE, !.cur = RootDir]
            /\ UNCHANGED <<poolVars, callerVars>>
  /\ UNCHANGED <<tofuVars, stream>>

\* The walk has returned albumDirs to its caller, or the scan has failed.
WalkReturned ==
  /\ walk.pc \in {"done", "failed"}
  /\ walk' = IdleWalk
  /\ UNCHANGED <<poolVars, callerVars, tofuVars, stream>>

\* The path of directory d of the library that is walked: the root is the
\* libraryPath the walk was called with ("/a"); walk(fullPath) is called with
\* join(dirPath, entry.name) (directoryWalker.ts 64, 101-103; 165, 197-199).
RECURSIVE DirPath(_)
DirPath(d) ==
  IF d = RootDir THEN AlbumDir
  ELSE join(DirPath(d \div 2), IF d % 2 = 0 THEN <<"l">> ELSE <<"r">>)

\* absolutePath of a discovered file (directoryWalker.ts 64, 82; 165, 179).
absolutePath(file) == join(DirPath(file.dir), file.filename)

\* processAlbumDir (scanQueue.ts 418-520) for the album directories a walk
\* returned: the album row gets dirPath: albumDir.dirPath in localDirPath or
\* remoteDirPath (findOrCreateAlbum, 243-247), each track row filePath:
\* file.absolutePath and the job's isRemote (499-513).
TrackRows(albumDirs, isRemote) ==
  UNION { { [dirPath |-> DirPath(albumDirs[i].dirPath),
             filePath |-> absolutePath(albumDirs[i].audioFiles[k]),
             isRemote |-> isRemote] : k \in 1..Len(albumDirs[i].audioFiles) }
          : i \in 1..Len(albumDirs) }

\* The rows of the library once its scan has walked it.
ScannedRows ==
  IF walk.pc = "done" THEN TrackRows(walk.albumDirs, walk.job.isRemote) ELSE {}

WalkInit == walk = IdleWalk

vars == <<pool, connecting, nextSession, sess, idleAge, cAwait, returned,
          hostKey, hostFingerprint, hostConfig, test, stream, walk>>

Init == PoolInit /\ TofuInit /\ WalkInit

\* Host ids are interchangeable: the first client is created for "h1".
Next ==
  \/ \E c \in Callers, h \in Hosts, keyOk \in BOOLEAN :
        (h = "h1" \/ nextSession > 1) /\ GetSftp(c, h, keyOk)
  \/ \E s \in Sessions : Ready(s)
  \/ \E s \in Sessions : SftpOk(s)
  \/ \E s \in Sessions : SftpErr(s)
  \/ \E s \in Sessions : ConnectTimeout(s)
  \/ \E s \in Sessions : ConnectError(s)
  \/ \E s \in Sessions : TransportError(s)
  \/ \E s \in Sessions : TransportClose(s)
  \/ \E s \in Sessions : IdleExpire(s)
  \/ \E h \in Hosts : pool[h] # NoSession /\ RemoveConnection(h)
  \/ CloseAll
  \/ Tick

Spec == Init /\ [][Next]_vars

\* The pool manager with removeConnection called at any moment, also while
\* the host has no entry (Next leaves those calls out: they change nothing the
\* manager holds).
NextEvict ==
  \/ Next
  \/ \E h \in Hosts : RemoveConnection(h)

SpecEvict == Init /\ [][NextEvict]_vars

\* The pool manager with its timers: time passes, and a pending timer (the
\* connect timeout of line 611, the idle timer of line 669) fires unless it is
\* cleared. Nothing makes a server answer.
SpecTimers ==
  /\ Spec
  /\ WF_vars(Tick)
  /\ \A s \in Sessions : WF_vars(ConnectTimeout(s)) /\ WF_vars(IdleExpire(s))

\* The pool manager with closeAll called at any moment, also while attempts
\* are in flight.
NextShutdown ==
  \/ Next
  \/ CloseAllInFlight

SpecShutdown == Init /\ [][NextShutdown]_vars

\* The pool manager with PATCH requests that change host or privateKeyPath of
\* a remote host.
HostConfigs == {"cfgA", "cfgB"}
NextPatch ==
  \/ Next
  \/ \E h \in Hosts, cfg \in HostConfigs :
        hostConfig[h] # cfg /\ UpdateRemoteHost(h, hostFingerprint[h], cfg)

SpecPatch == Init /\ [][NextPatch]_vars

\* Host identity: the test-connection requests, the host key of the server,
\* and connections made through the pool, for one remote host.
TofuHosts == {"h1"}
NextTofu ==
  \/ \E r \in Requests, h \in TofuHosts, accept \in BOOLEAN, keyOk \in BOOLEAN :
        TestStart(r, h, accept, keyOk)
  \/ \E r \in Requests : TestReady(r)
  \/ \E r \in Requests : TestPersist(r)
  \/ \E r \in Requests, msg \in {"Connection timed out after 10 seconds", "error"} :
        TestFail(r, msg)
  \/ \E h \in TofuHosts : KeyChange(h)
  \/ \E h \in TofuHosts, fp \in {"", Fingerprint("keyA"), Fingerprint("keyB")} :
        hostFingerprint[h] # fp /\ UpdateRemoteHost(h, fp, hostConfig[h])
  \/ \E c \in Callers, h \in TofuHosts :
        (\A d \in Callers : cAwait[d] = NoSession) /\ GetSftp(c, h, TRUE)
  \/ \E s \in Sessions : Ready(s)
  \/ \E s \in Sessions : SftpOk(s)

SpecTofu == Init /\ [][NextTofu]_vars

\* The test-connection requests of one host, each request sent once, so that
\* the replies in `test` are all the replies that were ever given.
NextAccept ==
  \/ \E r \in Requests, h \in TofuHosts, accept \in BOOLEAN, keyOk \in BOOLEAN :
        test[r].pc = "idle" /\ TestStart(r, h, accept, keyOk)
  \/ \E r \in Requests : TestReady(r)
  \/ \E r \in Requests : TestPersist(r)
  \/ \E r \in Requests, msg \in {"Connection timed out after 10 seconds", "error"} :
        TestFail(r, msg)
  \/ \E h \in TofuHosts : KeyChange(h)

SpecAccept == Init /\ [][NextAccept]_vars

\* Streaming: one request at a time against the tracks, albums, files and the
\* remote host of the library.
FileSizes == 0..MaxFileSize
NextStream ==
  \/ /\ stream.pc = "idle"
     /\ \E range \in RangeHeaders, trackExists \in BOOLEAN, format \in Formats,
           isRemote \in BOOLEAN :
           /\ trackExists \/ (format = "FLAC" /\ ~isRemote)
           /\ StreamTrack(range, trackExists, format, isRemote)
  \/ /\ stream.pc = "album"
     /\ \E albumExists \in BOOLEAN, remoteDirPath \in BOOLEAN, localDirPath \in BOOLEAN :
           StreamAlbum(albumExists, remoteDirPath, localDirPath)
  \/ /\ stream.pc = "local"
     /\ \E filePath \in FilePaths, file \in {"ok", "ENOENT", "EACCES"}, n \in FileSizes,
           onNaN \in {"throws", "reads"} :
           /\ (LocalPaths[filePath].inside /\ file = "ok") \/ n = 0
           /\ (LocalPaths[filePath].inside /\ file = "ok" /\ OpensNaNWindow(stream.range, n))
                \/ onNaN = "throws"
           /\ StreamLocal(filePath, file, n, onNaN)
  \/ /\ stream.pc = "remote"
     /\ \E hasRemoteHost \in BOOLEAN, hostExists \in BOOLEAN, keyOk \in BOOLEAN :
           StreamRemote(hasRemoteHost, hostExists, keyOk)
  \/ \E s \in Sessions : Ready(s)
  \/ \E s \in Sessions : SftpOk(s)
  \/ /\ stream.pc = "stat"
     /\ \E filePath \in FilePaths, err \in {"", "ENOENT", "EACCES", "FAILURE"},
           n \in FileSizes, onNaN \in {"throws", "reads"} :
           /\ err = "" \/ n = 0
           /\ (err = "" /\ OpensNaNWindow(stream.range, n)) \/ onNaN = "throws"
           /\ StreamStat(filePath, err, n, onNaN)
  \/ StreamDone

SpecStream == Init /\ [][NextStream]_vars

\* One walk at a time over the directories of a library. What a directory
\* holds is drawn when it is read.
NextWalk ==
  \/ \E remote \in BOOLEAN : WalkStart(remote)
  \/ /\ walk.pc = "readdir"
     /\ \E ok \in BOOLEAN, entries \in Listings, statFails \in BOOLEAN :
           /\ ok \/ (entries = <<>> /\ ~statFails)
           /\ statFails =>
                (~walk.remote /\ \E i \in 1..Len(entries) : entries[i] = File(<<"t", ".", "flac">>))
           /\ WalkReaddir(ok, entries, statFails)
  \/ WalkReturned

SpecWalk == Init /\ [][NextWalk]_vars

\* readdir calls its callback, or settles its promise, for every call that
\* was made: a walk that waits for a listing gets it.
WalkSettles ==
  \E ok \in BOOLEAN, entries \in Listings, statFails \in BOOLEAN :
    WalkReaddir(ok, entries, statFails)

SpecWalkFair == SpecWalk /\ WF_vars(WalkSettles)

\* Scans started through the scan endpoint, one at a time (the worker has
\* concurrency 1).
LibraryPaths == {"", "/lib"}
NextScan ==
  \/ /\ walk.pc = "idle"
     /\ \E libraryExists \in BOOLEAN, localPath \in LibraryPaths,
           remotePath \in LibraryPaths, remoteHostId \in Hosts \cup {Undefined} :
           /\ libraryExists \/ (localPath = "" /\ remotePath = "" /\ remoteHostId = Undefined)
           /\ ScanLibrary(libraryExists, localPath, remotePath, remoteHostId)
  \/ /\ walk.pc = "queued"
     /\ \E hostExists \in BOOLEAN, keyOk \in BOOLEAN : RunScan(hostExists, keyOk)
  \/ /\ walk.pc = "readdir"
     /\ \E ok \in BOOLEAN, entries \in Listings, statFails \in BOOLEAN :
           /\ ok \/ (entries = <<>> /\ ~statFails)
           /\ statFails =>
                (~walk.remote /\ \E i \in 1..Len(entries) : entries[i] = File(<<"t", ".", "flac">>))
           /\ WalkReaddir(ok, entries, statFails)
  \/ WalkReturned

SpecScan == Init /\ [][NextScan]_vars

\* A library is scanned once and its tracks are streamed afterwards: the
\* stream handler selects a track row the scan wrote for the album "/a", and
\* the file of the track is where the walker found it.
NextLibrary ==
  \/ \E remoteHostId \in {Undefined, "h1"} :
        ScanLibrary(TRUE, IF remoteHostId = Undefined THEN "/a" ELSE "",
                    IF remoteHostId = Undefined THEN "" ELSE "/a", remoteHostId)
  \/ RunScan(TRUE, TRUE)
  \/ /\ walk.pc = "readdir"
     /\ \E entries \in Listings : WalkReaddir(TRUE, entries, FALSE)
  \/ /\ \E row \in ScannedRows : row.dirPath = AlbumDir
     /\ StreamTrack(NoRange, TRUE, "FLAC", walk.job.isRemote)
  \/ StreamAlbum(TRUE, walk.job.isRemote, ~walk.job.isRemote)
  \/ /\ stream.pc = "local"
     /\ \E row \in ScannedRows, n \in FileSizes :
           /\ row.dirPath = AlbumDir
           /\ StreamLocal(row.filePath,
                          IF LocalPaths[row.filePath].resolved = row.filePath
                            THEN "ok" ELSE "ENOENT",
                          IF LocalPaths[row.filePath].resolved = row.filePath
                            THEN n ELSE 0,
                          "throws")
  \/ StreamRemote(TRUE, TRUE, TRUE)
  \/ \E s \in Sessions : Ready(s)
  \/ \E s \in Sessions : SftpOk(s)
  \/ /\ stream.pc = "stat"
     /\ \E row \in ScannedRows, n \in FileSizes :
           /\ row.dirPath = AlbumDir
           /\ StreamStat(row.filePath,
                         IF RemotePaths[row.filePath] = row.filePath THEN "" ELSE "ENOENT",
                         IF RemotePaths[row.filePath] = row.filePath THEN n ELSE 0,
                         "throws")
  \/ StreamDone

SpecLibrary == Init /\ [][NextLibrary]_vars

\* Remote streams of readable files while time passes and idle timers fire.
NextBorrow ==
  \/ StreamTrack(NoRange, TRUE, "FLAC", TRUE)
  \/ StreamAlbum(TRUE, TRUE, FALSE)
  \/ StreamRemote(TRUE, TRUE, TRUE)
  \/ \E s \in Sessions : Ready(s)
  \/ \E s \in Sessions : SftpOk(s)
  \/ /\ stream.pc = "stat"
     /\ \E filePath \in FilePaths, err \in {"", "ENOENT"}, n \in FileSizes :
           /\ err = "" \/ n = 0
           /\ StreamStat(filePath, err, n, "throws")
  \/ StreamDone
  \/ Tick
  \/ \E s \in Sessions : IdleExpire(s)

SpecBorrow == Init /\ [][NextBorrow]_vars


\* ================================================================ claims

\* Every suspended caller of a host awaits its one attempt in flight; the step
\* that settles an attempt resumes all its awaiters with the one outcome.
C1_Joined ==
  \A h \in Hosts :
    /\ Cardinality(InFlight(h)) <= 1
    /\ \A c \in Callers :
         (cAwait[c] # NoSession /\ sess[cAwait[c]].host = h) => cAwait[c] \in InFlight(h)
C1_Settled ==
  \A s \in Sessions :
    (sess[s].promise = "pending" /\ sess'[s].promise # "pending") =>
      /\ returned'.to = Awaiters(s)
      /\ returned'.kind \in {"ok", "err"}
      /\ returned'.kind = "ok" => returned'.chan = s
      /\ \A c \in Callers : cAwait'[c] # s
\* C1. Single-flight: while a connection attempt for a host is unsettled,
\* every getSftp for that host joins it: the host never has a second physical
\* attempt, every suspended caller of the host awaits the one attempt in
\* flight, and the step that settles the attempt hands one and the same
\* outcome (the channel of that attempt, or its error) to all of them.
C1_SingleFlight == [](C1_Joined) /\ [][C1_Settled]_vars
C1_Witness == Cardinality(returned.to) >= 2 /\ returned.kind = "ok"

\* C2. Each host id has at most one established SSH session that has not been
\* closed and at most one connection attempt in flight.
C2_AtMostOneLive ==
  \A h \in Hosts : Cardinality(LiveSessions(h)) <= 1 /\ Cardinality(InFlight(h)) <= 1

\* A successful test-connection matched the stored fingerprint it selected; a
\* pooled attempt becomes an entry only for a key that matches the stored one.
C3_TestVerified ==
  \A r \in Requests :
    (test[r].pc = "done" /\ test[r].reply.success /\ test[r].row # "") =>
      test[r].fp = test[r].row
C3_PooledVerified ==
  \A s \in Sessions :
    (sess[s].state = "sftpPending" /\ sess'[s].state = "open") =>
      \/ hostFingerprint[sess[s].host] = ""
      \/ Fingerprint(sess[s].key) = hostFingerprint[sess[s].host]
\* C3. For a host with a stored fingerprint no connection succeeds whose
\* handshake yields another fingerprint: a test-connection does not report
\* success, and no pooled connection is established.
C3_EveryPathVerifies == [](C3_TestVerified) /\ [][C3_PooledVerified]_vars

\* A request that selected a stored fingerprint and whose handshake gave
\* another one; its reply; the step that finds the mismatch.
C4_Mismatch(t) == t.row # "" /\ t.fp # "" /\ t.fp # t.row
C4_Reply ==
  \A r \in Requests :
    C4_Mismatch(test[r]) =>
      /\ test[r].pc = "done"
      /\ test[r].reply = Reply(FALSE, "Host fingerprint has changed!", test[r].fp, FALSE)
C4_NoWrite ==
  \A r \in Requests :
    (test[r].pc = "connecting" /\ C4_Mismatch(test'[r])) => hostFingerprint' = hostFingerprint
\* C4. A test-connection that selected a stored fingerprint and whose
\* handshake yields another one replies success: false with the mismatch
\* message, with acceptFingerprint true or false, and never writes the stored
\* fingerprint.
C4_MismatchRejected == [](C4_Reply) /\ [][C4_NoWrite]_vars
C4_Witness ==
  \E r \in Requests :
    /\ C4_Mismatch(test[r]) /\ test[r].accept /\ test[r].pc = "done"
    /\ hostFingerprint[test[r].host] = test[r].row

\* The reply of each finished request, by the fingerprint it selected and its
\* acceptFingerprint; the writes of the stored fingerprint by requests.
C5_Replies ==
  \A r \in Requests :
    test[r].pc = "done" =>
      LET t == test[r] IN
        /\ t.reply.needsAcceptance <=> (t.fp # "" /\ t.row = "" /\ ~t.accept)
        /\ (t.fp # "" /\ t.row = "" /\ ~t.accept) => ~t.reply.success
        /\ (t.fp # "" /\ t.row = "" /\ t.accept) =>
             t.reply = Reply(TRUE, "fingerprint accepted and stored", t.fp, FALSE)
        /\ (t.fp # "" /\ t.row = t.fp) =>
             t.reply = Reply(TRUE, "fingerprint verified", t.fp, FALSE)
C5_Writes ==
  /\ (test' # test /\ hostFingerprint' # hostFingerprint) =>
       \E r \in Requests :
         /\ test[r].pc = "persisting" /\ test'[r].pc = "done"
         /\ test[r].accept /\ test[r].row = ""
         /\ hostFingerprint' = [hostFingerprint EXCEPT ![test[r].host] = test[r].fp]
  /\ \A r \in Requests :
       (test[r].pc = "persisting" /\ test'[r].pc = "done") =>
          hostFingerprint'[test[r].host] = test[r].fp
\* C5. For a host with no stored fingerprint a test-connection without
\* acceptFingerprint replies needsAcceptance: true and writes nothing; with
\* acceptFingerprint it stores the fingerprint of its handshake and replies
\* success; a test that selects a stored fingerprint equal to the one of its
\* handshake replies success without needsAcceptance. needsAcceptance is set
\* exactly in replies to a completed handshake with nothing stored and
\* acceptFingerprint false.
C5_TrustOnFirstUse == [](C5_Replies) /\ [][C5_Writes]_vars
C5_Witness ==
  \E r1, r2 \in Requests :
    /\ test[r1].pc = "done" /\ test[r1].reply.needsAcceptance
    /\ test[r2].pc = "done" /\ test[r2].host = test[r1].host
    /\ test[r2].reply = Reply(TRUE, "fingerprint verified", test[r1].reply.fingerprint, FALSE)
    /\ hostFingerprint[test[r1].host] = test[r1].reply.fingerprint

\* A header of the form bytes=<digits>-<digits or nothing>, and its numbers.
C6_Digits(t, i, j) == \A k \in i..j : t[k] \in {"0", "1"}
C6_Hyphen(t) == CHOOSE k \in 1..Len(t) : t[k] = "-"
C6_IsByteRange(range) ==
  /\ range.present
  /\ Len(range.text) >= 3
  /\ range.text[1] = "bytes="
  /\ Cardinality({k \in 1..Len(range.text) : range.text[k] = "-"}) = 1
  /\ C6_Hyphen(range.text) >= 3
  /\ C6_Digits(range.text, 2, C6_Hyphen(range.text) - 1)
  /\ C6_Digits(range.text, C6_Hyphen(range.text) + 1, Len(range.text))
C6_Value(t, i, j) ==
  LET v[k \in (i - 1)..j] ==
        IF k = i - 1 THEN 0 ELSE 10 * v[k - 1] + (IF t[k] = "1" THEN 1 ELSE 0)
  IN v[j]
\* C6. For a file of size N and a Range header bytes=start-end (end: N-1 when
\* omitted): if start >= N or end >= N or start > end the response is 416 with
\* Content-Range: bytes */N and nothing is sent or read; otherwise it is 206
\* with Content-Range: bytes start-end/N, Content-Length end-start+1 and the
\* body is the bytes start..end of the file.
C6_RangeResponses ==
  (stream.pc = "replied" /\ stream.size >= 0 /\ C6_IsByteRange(stream.range)) =>
    LET t == stream.range.text
        h == C6_Hyphen(t)
        n == stream.size
        start == C6_Value(t, 2, h - 1)
        end == IF h = Len(t) THEN n - 1 ELSE C6_Value(t, h + 1, Len(t))
        rp == stream.reply
    IN IF start >= n \/ end >= n \/ start > end
         THEN /\ rp.status = 416
              /\ rp.contentRange = [kind |-> "unsatisfied", start |-> Num(0),
                                    end |-> Num(0), size |-> n]
              /\ rp.sends = "nothing"
              /\ rp.body = <<>>
              /\ "read" \notin stream.io
         ELSE /\ rp.status = 206
              /\ rp.contentRange = [kind |-> "range", start |-> Num(start),
                                    end |-> Num(end), size |-> n]
              /\ rp.contentLength = [set |-> TRUE, nan |-> FALSE, v |-> end - start + 1]
              /\ rp.sends = "stream"
              /\ rp.body = [i \in 1..(end - start + 1) |-> start + i - 1]
C6_Witness ==
  /\ stream.pc = "replied" /\ stream.chan # NoSession /\ stream.size = 2
  /\ stream.range = [present |-> TRUE, text |-> <<"bytes=", "1", "-", "1">>]
  /\ stream.reply.status = 206
  /\ stream.reply.body = <<1>>

\* C7. For a streamable track whose file has size N, a request without a Range
\* header is answered 200 with Content-Length N and Accept-Ranges: bytes, and
\* the whole file is streamed from offset 0, on the local and on the remote
\* backend.
C7_FullResponses ==
  (stream.pc = "replied" /\ stream.size >= 0 /\ ~stream.range.present) =>
    /\ stream.reply.status = 200
    /\ stream.reply.contentLength = [set |-> TRUE, nan |-> FALSE, v |-> stream.size]
    /\ stream.reply.acceptRanges
    /\ stream.reply.contentRange.kind = "none"
    /\ stream.reply.sends = "stream"
    /\ stream.reply.body = [i \in 1..stream.size |-> i - 1]
    /\ "read" \in stream.io
C7_Witness ==
  /\ stream.pc = "replied" /\ ~stream.range.present /\ stream.size = 2
  /\ ~stream.isRemote /\ stream.chan = NoSession
  /\ stream.reply.status = 200
  /\ stream.reply.body = <<0, 1>>

\* The request of a track with such a format has done nothing but reply 415;
\* the step that replies 415 leaves the manager alone.
C8_Rejected ==
  /\ stream.format \in {"ALAC", "APE", "WV", "UNKNOWN"} =>
       /\ stream.pc = "replied"
       /\ stream.reply.status = 415
       /\ stream.reply.format = stream.format
       /\ stream.io = {}
       /\ stream.chan = NoSession /\ stream.caller = 0 /\ stream.size = -1
       /\ stream.contentType = ""
  /\ (stream.pc = "replied" /\ stream.reply.status = 415) =>
       stream.format \in {"ALAC", "APE", "WV", "UNKNOWN"}
C8_NoConnection ==
  (stream.pc = "idle" /\ stream'.reply.status = 415) =>
     /\ UNCHANGED <<pool, connecting, nextSession, sess, idleAge, cAwait>>
     /\ returned'.kind = "none"
\* C8. An existing track whose format is outside the allow-list (ALAC, APE, WV,
\* UNKNOWN) is answered 415 whatever the Range header and the backend, before
\* the album is looked up and before any getSftp, stat or file I/O: the request
\* has started no effect and the step that answers leaves the pool alone.
C8_GateBeforeIO == [](C8_Rejected) /\ [][C8_NoConnection]_vars
C8_Witness ==
  /\ stream.pc = "replied" /\ stream.reply.status = 415
  /\ stream.format = "ALAC" /\ stream.isRemote
  /\ stream.range = [present |-> TRUE, text |-> <<"bytes=", "0", "-", "1">>]
  /\ pool[StreamHost] # NoSession

\* C9. A close or error event of a pooled session purges the entry of its
\* host at once: the pool never holds, and getSftp never returns, the channel
\* of a session that is not open.
C9_NoDeadChannel ==
  /\ \A h \in Hosts : pool[h] # NoSession =>
       sess[pool[h]].state = "open" /\ sess[pool[h]].host = h
  /\ returned.kind = "ok" => sess[returned.chan].state = "open"
C9_Witness ==
  /\ returned.kind = "ok"
  /\ \E s \in Sessions :
       /\ s # returned.chan
       /\ sess[s].host = sess[returned.chan].host
       /\ sess[s].state = "closed"
       /\ sess[s].itimer >= 0

\* The idle timer of an entry counts from the last getSftp that returned it;
\* the step in which a timer is cleared leaves the host without entry.
C10_Armed ==
  /\ \A h \in Hosts : pool[h] # NoSession =>
       /\ idleAge[h] <= IdleTimeoutTicks
       /\ sess[pool[h]].itimer = IdleTimeoutTicks - idleAge[h]
  /\ \A s \in Sessions : sess[s].state = "open" => sess[s].itimer >= 0
C10_Expired ==
  \A s \in Sessions :
    (sess[s].itimer = 0 /\ sess'[s].itimer = -1) =>
      /\ pool'[sess[s].host] = NoSession
      /\ sess'[s].state # "open"
      /\ returned'.kind # "ok"
\* C10. Idle eviction: an entry stays in the pool for at most the idle timeout
\* after the last getSftp that returned it (its timer is armed and runs out
\* then); when the timer of the pooled session fires the session is ended and
\* the host has no entry, so the next getSftp goes through a new handshake.
C10_IdleEviction == [](C10_Armed) /\ [][C10_Expired]_vars
C10_Witness ==
  \E h \in Hosts :
    /\ pool[h] = NoSession
    /\ idleAge[h] = IdleTimeoutTicks
    /\ \E s \in Sessions : sess[s].host = h /\ sess[s].state = "ending" /\ sess[s].itimer = -1
    /\ InFlight(h) # {}

\* A getSftp for a host that has an entry suspends nobody, constructs no
\* client, and returns the channel of the entry with its timer restarted.
C11_Hit ==
  \A h \in Hosts :
    pool[h] # NoSession =>
      /\ \A c \in Callers :
           (cAwait[c] = NoSession /\ cAwait'[c] # NoSession) => sess[cAwait'[c]].host # h
      /\ \A s \in Sessions :
           (sess[s].state = "free" /\ sess'[s].state # "free") => sess'[s].host # h
      /\ (returned'.kind = "ok" /\ sess[returned'.chan].host = h) =>
           /\ returned'.chan = pool[h]
           /\ pool'[h] = pool[h]
           /\ sess'[pool[h]].itimer = IdleTimeoutTicks
\* An idle timer that fires and leaves a host without its entry fires a full
\* idle timeout after the last getSftp that returned the entry.
C11_Sliding ==
  \A s \in Sessions :
    (/\ sess[s].itimer = 0 /\ sess'[s].itimer = -1
     /\ pool[sess[s].host] # NoSession /\ pool'[sess[s].host] = NoSession) =>
       idleAge[sess[s].host] = IdleTimeoutTicks
\* C11. With a live entry for the id, getSftp returns the channel of that entry
\* without a new connection attempt and restarts the idle timer of the entry:
\* the entry is evicted for idleness only a full idle timeout after the most
\* recent getSftp that hit it.
C11_ReuseAndSlide == [][C11_Hit /\ C11_Sliding]_vars

\* The step in which the connect timeout of an attempt is consumed by anything
\* but 'ready' or an error of the client: the timeout has fired.
C12_Fired ==
  \A s \in Sessions :
    (sess[s].ctimer /\ returned'.kind = "err" /\ returned'.err = "timeout"
       /\ sess'[s] # sess[s]) =>
      /\ sess'[s].state \in {"closed", "gone"}
      /\ Awaiters(s) # {}
      /\ returned'.to = Awaiters(s)
      /\ \A c \in Callers : cAwait'[c] # s
      /\ pool' = pool
      /\ connecting'[sess[s].host] = NoSession
\* An armed connect timeout belongs to a client in its handshake; an entry of
\* the pool belongs to an attempt that resolved.
C12_NoEntry ==
  /\ \A s \in Sessions : sess[s].ctimer => sess[s].state = "connecting"
  /\ \A s \in Sessions : sess[s].promise = "timeout" => sess[s].state = "closed"
  /\ \A h \in Hosts : pool[h] # NoSession => sess[pool[h]].promise = "ok"
\* C12. When the connect timeout expires before 'ready', the client is
\* destroyed, every caller awaiting the attempt gets the timeout error, and
\* the attempt creates no pool entry, then or later.
C12_ConnectTimeout == [](C12_NoEntry) /\ [][C12_Fired]_vars
C12_Witness ==
  /\ returned.kind = "err" /\ returned.err = "timeout"
  /\ Cardinality(returned.to) >= 2
  /\ \A h \in Hosts : pool[h] = NoSession /\ connecting[h] = NoSession

\* The step that takes the entry of a host out of the pool by ending its
\* session cancels the idle timer of the entry.
C13_Ended ==
  \A h \in Hosts :
    (pool[h] # NoSession /\ pool'[h] = NoSession /\ sess'[pool[h]].state = "ending") =>
      sess'[pool[h]].itimer = -1
\* No attempt that was in flight when removeConnection was called for its host
\* becomes the entry of the host or hands its channel to a caller.
C13_Fresh ==
  /\ \A h \in Hosts : pool[h] # NoSession => ~sess[pool[h]].preEvict
  /\ returned.kind = "ok" => ~sess[returned.chan].preEvict
\* C13. After removeConnection(hostId) the pool has no entry for the host, the
\* evicted session is ended with its idle timer cancelled, and the next getSftp
\* for the host never returns the channel of a connection started before the
\* eviction.
C13_EvictForcesReconnect == [](C13_Fresh) /\ [][C13_Ended]_vars

\* C14. After a PATCH changed host or privateKeyPath of a remote host, no
\* getSftp for its id returns the channel of a connection established with the
\* old configuration: a call that finds an entry for the id returns a channel
\* whose connection was made with the configuration the row has now.
C14_PatchInvalidates ==
  [][\A h \in Hosts :
       (hostConfig' = hostConfig /\ pool[h] # NoSession
          /\ returned'.kind = "ok" /\ returned'.chan = pool[h]) =>
         sess[pool[h]].config = hostConfig[h]]_vars

\* C15. closeAll ends every session held in the pool, cancels the idle timer
\* of every entry and leaves the pool empty, for any number of pooled hosts.
C15_CloseAll ==
  [][CloseAll =>
       /\ poolSize' = 0
       /\ \A h \in Hosts : pool[h] # NoSession =>
            /\ sess[pool[h]].state = "open"
            /\ sess'[pool[h]].state = "ending"
            /\ sess'[pool[h]].itimer = -1]_vars
\* Both hosts were pooled and their sessions are being ended with no timer
\* armed and no entry left.
C15_Witness ==
  /\ poolSize = 0
  /\ returned = NoResult
  /\ \A h \in Hosts :
       \E s \in Sessions :
         sess[s].host = h /\ sess[s].state = "ending" /\ sess[s].itimer = -1 /\ sess[s].listen

\* The directory tree of the album: the directory itself and what is below it.
C16_InsideAlbum(p) ==
  p = AlbumDir \/ startsWith(p, AlbumDir \o <<"/">>)
\* C16. For every stored track.filePath the path the stream handler stats and
\* reads lies inside the album's directory, on the local and on the remote
\* backend; an escaping path is answered 403 and never opened.
C16_NoTraversal ==
  /\ stream.path # NoPath => C16_InsideAlbum(stream.path)
  /\ (stream.pc = "replied" /\ stream.reply.error = "Invalid file path") =>
       stream.reply.status = 403

\* What a client and the storage see of a response: the status, the four
\* headers and the bytes read.
C17_Observed(rp) ==
  <<rp.status, rp.contentType, rp.contentLength, rp.acceptRanges, rp.contentRange,
    rp.sends, rp.body>>
RECURSIVE C18_Reached(_)
C18_Reached(d) ==
  /\ walk.read[d].st = "ok"
  /\ d = RootDir \/ C18_Reached(d \div 2)
\* The names of the regular files with a recognized audio extension that the
\* directory holds itself.
C18_DirectAudio(d) ==
  {walk.read[d].entries[i].name : i \in
     {k \in 1..Len(walk.read[d].entries) :
        /\ walk.read[d].entries[k].kind = "file"
        /\ isAudioFile(walk.read[d].entries[k].name)}}
C18_Entries(d) ==
  {i \in 1..Len(walk.albumDirs) : walk.albumDirs[i].dirPath = d}
\* C18. walkRemoteLibrary returns an entry for a directory exactly if the walk
\* reached it and it holds an audio file itself, one entry per such directory,
\* and the audioFiles of the entry are the audio files the directory holds
\* itself, each once and none of another directory.
C18_AlbumDirs ==
  (walk.pc = "done" /\ walk.remote) =>
    \A d \in Dirs :
      /\ Cardinality(C18_Entries(d)) =
           (IF C18_Reached(d) /\ C18_DirectAudio(d) # {} THEN 1 ELSE 0)
      /\ \A i \in C18_Entries(d) :
           LET fs == walk.albumDirs[i].audioFiles IN
             /\ {fs[k].filename : k \in 1..Len(fs)} = C18_DirectAudio(d)
             /\ \A k \in 1..Len(fs) : fs[k].dir = d
             /\ \A j, k \in 1..Len(fs) : fs[j] = fs[k] => j = k
\* A directory and the directory above it both hold audio files and are two
\* entries; a further directory holds only entries that are no audio files.
C18_Witness ==
  /\ walk.pc = "done" /\ walk.remote
  /\ Len(walk.albumDirs) = 2
  /\ walk.albumDirs[1].dirPath = 2 /\ walk.albumDirs[2].dirPath = 4
  /\ Len(walk.albumDirs[1].audioFiles) = 2
  /\ walk.read[3].st = "ok" /\ Len(walk.read[3].entries) = 2

\* Every directory whose listing and whose ancestors' listings did not fail
\* has been read when the walk ends; nothing below a failed listing is read.
C19_Visited ==
  \A d \in Dirs :
    IF d = RootDir \/ C18_Reached(d \div 2)
      THEN walk.read[d].st \in {"ok", "failed"}
      ELSE walk.read[d].st = "unread"
\* An album directory once discovered stays in the result.
C19_Kept ==
  walk.pc = "readdir" =>
    /\ Len(walk'.albumDirs) >= Len(walk.albumDirs)
    /\ SubSeq(walk'.albumDirs, 1, Len(walk.albumDirs)) = walk.albumDirs
\* The album directories of the readable part of the tree: the directories
\* reached that hold an audio file the walker could take.
C19_Readable(d) ==
  /\ C18_Reached(d)
  /\ AudioFiles(d, walk.read[d].entries, walk.remote, walk.read[d].statFails) # <<>>
\* C19. A listing that fails does not fail the walk: the subtree of that
\* directory is skipped, every other directory is still visited, album
\* directories already found are kept, and the walk ends with the album
\* directories of all readable parts of the tree.
C19_SkipUnreadable ==
  /\ [](walk.pc = "done" =>
          /\ C19_Visited
          /\ {walk.albumDirs[i].dirPath : i \in 1..Len(walk.albumDirs)}
               = {d \in Dirs : C19_Readable(d)})
  /\ [][C19_Kept]_vars
  /\ [](walk.pc = "readdir" => <>(walk.pc = "done"))
\* The listing of a directory failed after an album directory was found, and
\* a directory read after the failure is an album directory as well.
C19_Witness ==
  /\ walk.pc = "done"
  /\ walk.read[2].st = "failed" /\ walk.read[4].st = "unread"
  /\ Len(walk.albumDirs) = 2
  /\ walk.albumDirs[1].dirPath = RootDir /\ walk.albumDirs[2].dirPath = 3

\* The step changes something the manager holds for host h: its entry, its
\* attempt in flight, the age of its entry, or a client made for it with its
\* timers.
C20_Changed(h) ==
  \/ pool'[h] # pool[h]
  \/ connecting'[h] # connecting[h]
  \/ idleAge'[h] # idleAge[h]
  \/ \E s \in Sessions : (sess[s].host = h \/ sess'[s].host = h) /\ sess'[s] # sess[s]
\* The entries of the pool are sessions of their own host, so two hosts never
\* share one.
C20_Separate ==
  \A h \in Hosts : pool[h] # NoSession => sess[pool[h]].host = h
\* C20. Connections of distinct host ids are independent: two hosts have two
\* separate entries, and a getSftp, handshake result, idle expiry, close or
\* error event or removeConnection (every step but closeAll and the passing of
\* time) changes the entry, the timers and the attempt of one host at most.
C20_HostsIndependent ==
  /\ [](C20_Separate)
  /\ [][\A g, h \in Hosts :
          (g # h /\ C20_Changed(g) /\ C20_Changed(h)) => (CloseAll \/ Tick)]_vars
\* Both hosts have an entry, and the last step handed out the channel of one.
C20_Witness ==
  /\ poolSize = 2
  /\ pool["h1"] # pool["h2"]
  /\ returned.kind = "ok"
  /\ \A h \in Hosts : sess[pool[h]].state = "open" /\ sess[pool[h]].itimer >= 0

\* The in-flight record of a host holds an attempt made for that host whose
\* promise is not settled.
C21_Unsettled ==
  \A h \in Hosts :
    connecting[h] # NoSession =>
      sess[connecting[h]].host = h /\ sess[connecting[h]].promise = "pending"
\* The step that settles an attempt removes the record of its host, whatever
\* the outcome; an error is handed only to callers that awaited the attempt
\* settled by this step, or to the caller whose own key file cannot be read,
\* and that caller leaves no record either.
C21_Removed ==
  /\ \A s \in Sessions :
       (sess[s].promise = "pending" /\ sess'[s].promise # "pending") =>
         connecting'[sess[s].host] = NoSession
  /\ \A c \in Callers :
       (returned' # returned /\ returned'.kind = "err" /\ c \in returned'.to) =>
         \/ /\ cAwait[c] # NoSession
            /\ sess[cAwait[c]].promise = "pending"
            /\ connecting'[sess[cAwait[c]].host] = NoSession
         \/ /\ returned'.err = "key"
            /\ connecting' = connecting
            /\ \E h \in Hosts : connecting[h] = NoSession /\ pool[h] = NoSession
\* C21. The in-flight record of a host exists only while its attempt is
\* unsettled: it is removed when the attempt settles, on success and on every
\* failure path, so the next getSftp starts a new attempt and never receives
\* the old failure.
C21_InFlightRecord == [](C21_Unsettled) /\ [][C21_Removed]_vars
\* An attempt of host h1 has failed and a later call has started a new one.
C21_Witness ==
  /\ connecting["h1"] = 2
  /\ sess[2].promise = "pending"
  /\ sess[1].state \in {"failed", "closed", "gone"}
  /\ pool["h1"] = NoSession /\ pool["h2"] = NoSession /\ connecting["h2"] = NoSession
  /\ nextSession = 3

\* C22. A scan started through the scan endpoint for a library with a
\* remoteHostId walks the library with the SFTP walker over a channel got
\* from getSftp, never with the local walker.
C22_RemoteScanUsesSftp ==
  (walk.pc \in {"readdir", "done"} /\ walk.job.isRemote) =>
    walk.remote /\ walk.chan # NoSession

\* C23. A close event, an error event or an idle-timer expiry of a session
\* that is no longer the entry of its host never removes the entry of a newer
\* session of the host: an entry leaves the pool only in a step in which its
\* own session is ended or closed.
C23_StaleEventsHarmless ==
  [][\A h \in Hosts :
       (pool[h] # NoSession /\ pool'[h] # pool[h]) => sess'[pool[h]].state # "open"]_vars

\* The stream request holds the channel of session s and is not over: its
\* sftp.stat is pending, or its read stream is being piped to the client.
C24_Borrowed(s) ==
  /\ stream.chan = s
  /\ \/ stream.pc = "stat"
     \/ stream.pc = "replied" /\ stream.reply.sends = "stream"
\* C24. The idle timer never ends a session while an operation that borrowed
\* its channel is in progress.
C24_NoCutOff ==
  [][\A s \in Sessions :
       (sess[s].itimer = 0 /\ sess[s].state = "open" /\ sess'[s].state # "open") =>
         ~C24_Borrowed(s)]_vars

\* C25. After closeAll the pool stays empty until a new getSftp call is made:
\* an attempt that was in flight when closeAll ran neither becomes a pool
\* entry nor leaves an open session.
C25_ClosedStaysClosed ==
  \A s \in Sessions :
    sess[s].preEvict =>
      /\ sess[s].state # "open"
      /\ \A h \in Hosts : pool[h] # s

\* C26. The fingerprint a test-connection call with acceptFingerprint: true
\* persists is one that an earlier needsAcceptance reply for the host reported
\* to the operator; a key that changed between the prompt and the acceptance
\* is not stored.
C26_Prompted(h, fp) ==
  \E q \in Requests :
    /\ test[q].pc = "done"
    /\ test[q].host = h
    /\ test[q].reply.needsAcceptance
    /\ test[q].reply.fingerprint = fp
C26_AcceptsWhatWasShown ==
  [][\A r \in Requests :
       ( /\ test[r].pc = "persisting"
         /\ test'[r].pc = "done"
         /\ \E fp \in {Fingerprint("keyA"), Fingerprint("keyB")} :
               C26_Prompted(test[r].host, fp) )
         => C26_Prompted(test[r].host, hostFingerprint'[test[r].host])]_vars

\* C27. Once a fingerprint is stored for a host, no test-connection request
\* replaces it with a different value, whatever the interleaving of the
\* requests.
C27_WrittenOnce ==
  [][\A h \in Hosts :
       (hostFingerprint[h] # "" /\ hostFingerprint'[h] # hostFingerprint[h])
         => test' = test]_vars

\* C28. Whatever Range header is sent and whatever the size N of the file, a
\* 206 response carries integers 0 <= start <= end < N in Content-Range and a
\* Content-Length between 1 and N, on both backends; any other header value is
\* answered 416 or ignored.
C28_WellFormedRanges ==
  (stream.pc = "replied" /\ stream.reply.status = 206) =>
    LET rp == stream.reply IN
      /\ rp.contentRange.kind = "range"
      /\ ~rp.contentRange.start.nan
      /\ ~rp.contentRange.end.nan
      /\ 0 <= rp.contentRange.start.v
      /\ rp.contentRange.start.v <= rp.contentRange.end.v
      /\ rp.contentRange.end.v < stream.size
      /\ rp.contentLength.set
      /\ ~rp.contentLength.nan
      /\ rp.contentLength.v \in 1..stream.size

\* C29. For every track row a scan wrote, the path the stream handler opens,
\* the album's directory joined with track.filePath, is the absolute path of
\* the file the walker discovered, and a track whose file is still there is
\* not answered as missing.
C29_StreamOpensScannedFile ==
  (stream.pc = "replied" /\ stream.path # NoPath) =>
    /\ \E row \in ScannedRows : stream.path = row.filePath
    /\ stream.reply.status # 404

\* C30. Every SSH session that reaches the ready state is eventually ended or
\* destroyed when the pending timers fire: a session stays established for
\* ever only while getSftp keeps handing it out, which re-arms its idle timer
\* again and again.
C30_Established(s) == sess[s].state \in {"sftpPending", "open"}
C30_EventuallyEnded ==
  \A s \in Sessions :
    <>[]C30_Established(s) => []<><<sess'[s].itimer > sess[s].itimer>>_vars

====
